---- MODULE Spec2Model ----
(***************************************************************************)
(* A model of tc_aws/aws/storage.py (class AwsStorage): key derivation     *)
(* (_normalize_path, _generate_digest), the sidecar keys of get_crypto,    *)
(* put_crypto, get_detector_data and put_detector_data, the expiry policy  *)
(* (is_expired) with the read paths that use it, and the facade operations *)
(* running against the object store.                                       *)
(*                                                                         *)
(* Python strings are sequences of one-character strings.  A Python dict   *)
(* is a function whose DOMAIN is its set of keys.  An optional value is a  *)
(* sequence of length at most one: None is << >>, a value v is <<v>>.      *)
(***************************************************************************)
EXTENDS Integers, Sequences, FiniteSets, Bags, TLC

VARIABLES
    path,       \* key derivation: the logical path handed to the adapter
    config,     \* the configuration and request context of the adapter
    derived,    \* key derivation: the keys computed so far
    descriptor, \* read paths: the descriptor the object store returned
    now,        \* read paths: datetime.now(tzutc()) at the time of the check
    outcome,    \* read paths: what each read path made of the descriptor
    store,      \* facade: the object store's contents, key -> object
    clock,      \* facade: the wall clock, a timestamp
    calls,      \* facade: the calls in flight, a bag, each with its position
    started,    \* facade: how many calls have been made
    done        \* facade: the call that returned last, with its result

vars == <<path, config, derived, descriptor, now, outcome, store, clock, calls, started, done>>

----------------------------------------------------------------------------
(* Bounds of the model.                                                    *)

MaxPieces == 3   \* a path is built of at most this many pieces
MaxDays == 1     \* an object's age is less than MaxDays + 1 days
MaxCalls == 3    \* the facade is called at most this many times
MaxTicks == 1    \* the wall clock is advanced at most this many times

----------------------------------------------------------------------------
(* Python values.                                                          *)

NoneV == << >>
Some(v) == <<v>>
IsNone(o) == o = << >>
Val(o) == o[1]

Max(S) == CHOOSE m \in S : \A n \in S : n <= m

\* str literals used by the code
Slash == "/"
Dot == "."
Txt == <<".", "t", "x", "t">>
DetectorsTxt == <<".", "d", "e", "t", "e", "c", "t", "o", "r", "s", ".", "t", "x", "t">>
Webp == <<"w", "e", "b", "p">>

\* str.lstrip('/')
RECURSIVE lstrip(_)
lstrip(s) == IF s # << >> /\ s[1] = Slash THEN lstrip(Tail(s)) ELSE s

\* str.endswith('/') and str.startswith('/')
endswith(s) == s # << >> /\ s[Len(s)] = Slash
startswith(s) == s # << >> /\ s[1] = Slash

\* str.rfind(c), 1-based; 0 when c does not occur (Python's -1)
rfind(s, c) == Max({0} \cup {i \in 1..Len(s) : s[i] = c})

\* ".".join(segments)
RECURSIVE DotJoin(_)
DotJoin(segments) ==
    IF segments = << >> THEN << >>
    ELSE IF Len(segments) = 1 THEN segments[1]
    ELSE segments[1] \o <<Dot>> \o DotJoin(Tail(segments))

\* the two hex digits of one character's UTF-8 byte
HexOf(c) ==
    CASE c = "/" -> "2f"
      [] c = "." -> "2e"
      [] c = "a" -> "61"
      [] c = "b" -> "62"
      [] c = "c" -> "63"
      [] c = "d" -> "64"
      [] c = "e" -> "65"
      [] c = "i" -> "69"
      [] c = "j" -> "6a"
      [] c = "o" -> "6f"
      [] c = "p" -> "70"
      [] c = "r" -> "72"
      [] c = "s" -> "73"
      [] c = "t" -> "74"
      [] c = "w" -> "77"
      [] c = "x" -> "78"
      [] OTHER -> "3f"

RECURSIVE HexAll(_)
HexAll(s) == IF s = << >> THEN "" ELSE HexOf(s[1]) \o HexAll(Tail(s))

\* sha1(bytes).hexdigest(): a string of hex digits, so one that holds neither
\* '/' nor '.'.  It is kept as ONE opaque element of the key, and the hash is
\* taken to be free of collisions: the element spells out the hashed bytes.
sha1hex(bytes) == <<"sha1:" \o HexAll(bytes)>>

\* posixpath.join(a, *p), one component at a time
join2(acc, b) ==
    IF startswith(b) THEN b
    ELSE IF acc = << >> \/ endswith(acc) THEN acc \o b
    ELSE acc \o <<Slash>> \o b

RECURSIVE joinFrom(_, _)
joinFrom(acc, rest) ==
    IF rest = << >> THEN acc ELSE joinFrom(join2(acc, rest[1]), Tail(rest))

join(segments) == joinFrom(segments[1], Tail(segments))

\* posixpath.splitext(p): <<root, ext>>.  The extension starts at the last
\* dot of the last component, unless only dots precede that dot in it.
RECURSIVE splitextFrom(_, _, _)
splitextFrom(p, filenameIndex, dotIndex) ==
    IF filenameIndex < dotIndex
    THEN IF p[filenameIndex] # Dot
         THEN <<SubSeq(p, 1, dotIndex - 1), SubSeq(p, dotIndex, Len(p))>>
         ELSE splitextFrom(p, filenameIndex + 1, dotIndex)
    ELSE <<p, << >> >>

\* splitext that cuts at the last dot of the whole path
splitext_LastDotAnywhere(p) ==
    LET dotIndex == rfind(p, Dot)
    IN  IF dotIndex > 0
        THEN <<SubSeq(p, 1, dotIndex - 1), SubSeq(p, dotIndex, Len(p))>>
        ELSE <<p, << >> >>

splitext(p) ==
    LET sepIndex == rfind(p, Slash)
        dotIndex == rfind(p, Dot)
    IN  IF dotIndex > sepIndex
        THEN splitextFrom(p, sepIndex + 1, dotIndex)
        ELSE <<p, << >> >>

----------------------------------------------------------------------------
(* Key derivation.                                                         *)

\* AwsStorage.is_auto_webp
is_auto_webp(cfg) == cfg.AUTO_WEBP /\ cfg.has_request /\ cfg.accepts_webp

\* AwsStorage._should_randomize_key
_should_randomize_key(cfg) == cfg.TC_AWS_RANDOMIZE_KEYS

\* AwsStorage._generate_digest
_generate_digest(segments) == sha1hex(DotJoin(segments))

\* the segment list of _normalize_path before the digest is inserted
PlainSegments(p, cfg) ==
    LET stripped == lstrip(p)
        root_path == cfg.ROOT_PATH
        withRoot == IF ~IsNone(root_path) /\ Val(root_path) # << >>
                    THEN <<Val(root_path), stripped>>
                    ELSE <<stripped>>
    IN  IF is_auto_webp(cfg) THEN Append(withRoot, Webp) ELSE withRoot

\* _normalize_path without the substitution of the root image name
_normalize_path_NoRootImage(p, cfg) ==
    LET plain == PlainSegments(p, cfg)
        path_segments == IF _should_randomize_key(cfg)
                         THEN <<_generate_digest(plain)>> \o plain
                         ELSE plain
    IN  IF Len(path_segments) > 1
        THEN lstrip(join(path_segments))
        ELSE path_segments[1]

\* AwsStorage._normalize_path
_normalize_path(p, cfg) ==
    LET plain == PlainSegments(p, cfg)
        path_segments == IF _should_randomize_key(cfg)
                         THEN <<_generate_digest(plain)>> \o plain
                         ELSE plain
        normalized_path == IF Len(path_segments) > 1
                           THEN lstrip(join(path_segments))
                           ELSE path_segments[1]
    IN  IF endswith(normalized_path)
        THEN normalized_path \o cfg.TC_AWS_ROOT_IMAGE_NAME
        ELSE normalized_path

\* get_crypto: the key it reads
get_crypto_path(p, cfg) ==
    LET file_abspath == _normalize_path(p, cfg)
    IN  splitext(file_abspath)[1] \o Txt

\* put_crypto: the key it writes
put_crypto_path(p, cfg) ==
    LET file_abspath == _normalize_path(p, cfg)
    IN  splitext(file_abspath)[1] \o Txt

\* get_detector_data: the key it reads
get_detector_path(p, cfg) ==
    LET file_abspath == _normalize_path(p, cfg)
    IN  splitext(file_abspath)[1] \o DetectorsTxt

\* put_detector_data: the key it writes
put_detector_path(p, cfg) ==
    LET file_abspath == _normalize_path(p, cfg)
    IN  splitext(file_abspath)[1] \o DetectorsTxt

----------------------------------------------------------------------------
(* JSON, for the lists of integers the detector data is made of.           *)

DigitChar(d) ==
    CASE d = 0 -> "0" [] d = 1 -> "1" [] d = 2 -> "2" [] d = 3 -> "3"
      [] d = 4 -> "4" [] d = 5 -> "5" [] d = 6 -> "6" [] d = 7 -> "7"
      [] d = 8 -> "8" [] OTHER -> "9"

Digits == {"0", "1", "2", "3", "4", "5", "6", "7", "8", "9"}

DigitVal(c) == CHOOSE d \in 0..9 : DigitChar(d) = c

RECURSIVE IntStr(_)
IntStr(n) == IF n < 10 THEN <<DigitChar(n)>>
             ELSE IntStr(n \div 10) \o <<DigitChar(n % 10)>>

RECURSIVE dumpsItems(_)
dumpsItems(items) ==
    IF items = << >> THEN << >>
    ELSE IF Len(items) = 1 THEN IntStr(items[1])
    ELSE IntStr(items[1]) \o <<",", " ">> \o dumpsItems(Tail(items))

\* json.dumps(data) for a list of non-negative integers
dumps(data) == <<"[">> \o dumpsItems(data) \o <<"]">>

\* json.loads(text): [ok |-> TRUE, v |-> the list], or [ok |-> FALSE] where
\* loads raises.  state: "item" before a number, "num" inside one, "sep"
\* after a comma.
RECURSIVE loadsFrom(_, _, _, _, _)
loadsFrom(text, i, state, acc, num) ==
    IF i > Len(text) THEN [ok |-> FALSE]
    ELSE LET c == text[i] IN
         CASE c \in Digits /\ state \in {"item", "sep"} ->
                  loadsFrom(text, i + 1, "num", acc, DigitVal(c))
           [] c \in Digits /\ state = "num" /\ num # 0 ->
                  loadsFrom(text, i + 1, "num", acc, 10 * num + DigitVal(c))
           [] c = "," /\ state = "num" ->
                  loadsFrom(text, i + 1, "sep", Append(acc, num), 0)
           [] c = " " /\ state \in {"sep", "item"} ->
                  loadsFrom(text, i + 1, state, acc, num)
           [] c = "]" /\ state = "num" /\ i = Len(text) ->
                  [ok |-> TRUE, v |-> Append(acc, num)]
           [] c = "]" /\ state = "item" /\ acc = << >> /\ i = Len(text) ->
                  [ok |-> TRUE, v |-> << >>]
           [] OTHER -> [ok |-> FALSE]

loads(text) ==
    IF text # << >> /\ text[1] = "["
    THEN loadsFrom(text, 2, "item", << >>, 0)
    ELSE [ok |-> FALSE]

----------------------------------------------------------------------------
(* Descriptors, errors and the expiry policy.                              *)

SecondsPerDay == 86400
MicrosPerSecond == 1000000

\* a datetime: whole seconds since the epoch and microseconds
Time(s, us) == [s |-> s, us |-> us]

\* datetime - datetime: the timedelta, normalised as Python keeps it, with
\* 0 <= seconds < 86400 and 0 <= microseconds < 1000000
timedelta(a, b) ==
    LET borrow == IF a.us < b.us THEN 1 ELSE 0
        whole == a.s - b.s - borrow
    IN  [days |-> whole \div SecondsPerDay,
         seconds |-> whole % SecondsPerDay,
         microseconds |-> a.us - b.us + borrow * MicrosPerSecond]

\* a Python value that is None, a str or a dict
PyNone == [kind |-> "None"]
PyStr(s) == [kind |-> "str", v |-> s]
PyDict(d) == [kind |-> "dict", v |-> d]
Truthy(x) ==
    CASE x.kind = "None" -> FALSE
      [] x.kind = "str" -> x.v # ""
      [] OTHER -> DOMAIN x.v # {}

\* bool(descriptor): None and the empty dict are both false
Present(d) == DOMAIN d # {}

\* AwsStorage._get_error
_get_error(response) ==
    IF "Error" \in DOMAIN response
    THEN IF "Message" \in DOMAIN response.Error
         THEN PyStr(response.Error.Message)
         ELSE PyDict(response.Error)
    ELSE PyNone

\* is_expired with the test for 0 left out of "never expire"
is_expired_OnlyNoneNeverExpires(key, expire_in_seconds, nowT) ==
    IF Present(key) /\ _get_error(key).kind = "None" /\ "LastModified" \in DOMAIN key
    THEN IF IsNone(expire_in_seconds)
         THEN FALSE
         ELSE timedelta(nowT, key.LastModified).seconds > Val(expire_in_seconds)
    ELSE TRUE

\* AwsStorage.is_expired, with self.storage_expiration_seconds and
\* datetime.now(tzutc()) as arguments
is_expired(key, expire_in_seconds, nowT) ==
    IF Present(key) /\ _get_error(key).kind = "None" /\ "LastModified" \in DOMAIN key
    THEN IF IsNone(expire_in_seconds) \/ Val(expire_in_seconds) = 0
         THEN FALSE
         ELSE timedelta(nowT, key.LastModified).seconds > Val(expire_in_seconds)
    ELSE TRUE

\* AwsStorage.exists, after the descriptor is fetched
exists_result(file_key) ==
    IF ~Present(file_key) \/ Truthy(_get_error(file_key)) THEN FALSE ELSE TRUE

\* AwsStorage.last_updated: on_file_fetched
on_file_fetched(file, expire_in_seconds, nowT) ==
    IF \/ ~Present(file)
       \/ Truthy(_get_error(file))
       \/ is_expired(file, expire_in_seconds, nowT)
       \/ "LastModified" \notin DOMAIN file
    THEN NoneV
    ELSE Some(file.LastModified)

\* AwsStorage.get_crypto: return_data
crypto_return_data(file_key, expire_in_seconds, nowT) ==
    IF \/ ~Present(file_key)
       \/ Truthy(_get_error(file_key))
       \/ is_expired(file_key, expire_in_seconds, nowT)
       \/ "Body" \notin DOMAIN file_key
    THEN NoneV
    ELSE Some(file_key.Body)

\* return_data of get_detector_data handing back the body as it was read
detector_return_data_NoLoads(file_key, expire_in_seconds, nowT) ==
    IF \/ ~Present(file_key)
       \/ Truthy(_get_error(file_key))
       \/ is_expired(file_key, expire_in_seconds, nowT)
       \/ "Body" \notin DOMAIN file_key
    THEN NoneV
    ELSE Some([ok |-> TRUE, v |-> file_key.Body])

\* AwsStorage.get_detector_data: return_data.  << >> is None, <<r>> the
\* outcome of loads: r.ok with the value r.v, or ~r.ok where loads raises.
detector_return_data(file_key, expire_in_seconds, nowT) ==
    IF \/ ~Present(file_key)
       \/ Truthy(_get_error(file_key))
       \/ is_expired(file_key, expire_in_seconds, nowT)
       \/ "Body" \notin DOMAIN file_key
    THEN NoneV
    ELSE Some(loads(file_key.Body))

----------------------------------------------------------------------------
(* The inputs.                                                             *)

\* the pieces paths are built of
Pieces == {<<"a">>, <<Slash>>, <<Dot>>, <<"a", Slash>>, Txt,
           <<".", "d", "e", "t", "e", "c", "t", "o", "r", "s">>}

RECURSIVE PathsOf(_)
PathsOf(n) ==
    IF n = 0 THEN {<< >>}
    ELSE LET shorter == PathsOf(n - 1)
         IN  shorter \cup {p \o q : p \in shorter, q \in Pieces}

Paths == PathsOf(MaxPieces)

\* {PREFIX}_ROOT_PATH: unset, empty, relative, absolute, with a trailing
\* separator, and the bare separator
RootPaths == {NoneV, Some(<< >>), Some(<<"r">>), Some(<<Slash, "r">>),
              Some(<<"r", Slash>>), Some(<<Slash>>)}

\* TC_AWS_ROOT_IMAGE_NAME: a file name, and the empty string
RootImageNames == {<<"i", ".", "j">>, << >>}

\* context.server.security_key: not configured, or configured
SecurityKeys == {<< >>, <<"s", "e", "c", "r", "e", "t">>}
TheSecurityKey == <<"s", "e", "c", "r", "e", "t">>

\* the request headers that set() captures as metadata
Headers == [ContentType |-> "image"]
NoMetadata == << >>

\* the settings that do not matter to the pure functions, at their defaults
BaseConfig ==
    [ROOT_PATH |-> NoneV, AUTO_WEBP |-> FALSE, has_request |-> TRUE,
     accepts_webp |-> FALSE, TC_AWS_RANDOMIZE_KEYS |-> FALSE,
     TC_AWS_ROOT_IMAGE_NAME |-> <<"i", ".", "j">>,
     STORES_CRYPTO_KEY_FOR_EACH_IMAGE |-> TRUE,
     security_key |-> TheSecurityKey,
     storage_expiration_seconds |-> NoneV,
     config_prefix |-> "TC_AWS_RESULT_STORAGE",
     prefix_is_literal |-> TRUE,
     TC_AWS_STORE_METADATA |-> FALSE,
     TC_AWS_STORAGE_RRS |-> FALSE, TC_AWS_STORAGE_SSE |-> FALSE]

\* AUTO_WEBP, whether the context has a request, and request.accepts_webp
WebpContexts ==
    {<<a, h, w>> \in BOOLEAN \X BOOLEAN \X BOOLEAN : ~h => ~w}

Idle == << >>

----------------------------------------------------------------------------
(* SpecKey: key derivation and the sidecar keys, as pure functions of the  *)
(* path and the configuration.                                             *)

KeyConfigs ==
    {[BaseConfig EXCEPT !.ROOT_PATH = r, !.AUTO_WEBP = w[1], !.has_request = w[2],
                        !.accepts_webp = w[3], !.TC_AWS_RANDOMIZE_KEYS = z,
                        !.TC_AWS_ROOT_IMAGE_NAME = n] :
        r \in RootPaths, w \in WebpContexts, z \in BOOLEAN, n \in RootImageNames}

NoKeys == [key |-> NoneV, get_crypto |-> NoneV, put_crypto |-> NoneV,
           get_detector_data |-> NoneV, put_detector_data |-> NoneV]

KeyInit ==
    /\ path \in Paths
    /\ config \in KeyConfigs
    /\ derived = NoKeys
    /\ descriptor = Idle /\ now = Idle /\ outcome = Idle
    /\ store = Idle /\ clock = Idle /\ calls = Idle /\ started = Idle /\ done = Idle

KeyRest == UNCHANGED <<path, config, descriptor, now, outcome, store, clock, calls, started, done>>

\* get(path) and exists(path) derive the primary key
DeriveKey ==
    /\ IsNone(derived.key)
    /\ derived' = [derived EXCEPT !.key = Some(_normalize_path(path, config))]
    /\ KeyRest

DeriveGetCrypto ==
    /\ ~IsNone(derived.key) /\ IsNone(derived.get_crypto)
    /\ derived' = [derived EXCEPT !.get_crypto = Some(get_crypto_path(path, config))]
    /\ KeyRest

DerivePutCrypto ==
    /\ ~IsNone(derived.get_crypto) /\ IsNone(derived.put_crypto)
    /\ config.STORES_CRYPTO_KEY_FOR_EACH_IMAGE /\ config.security_key # << >>
    /\ derived' = [derived EXCEPT !.put_crypto = Some(put_crypto_path(path, config))]
    /\ KeyRest

DeriveGetDetector ==
    /\ ~IsNone(derived.put_crypto) /\ IsNone(derived.get_detector_data)
    /\ derived' = [derived EXCEPT
                      !.get_detector_data = Some(get_detector_path(path, config))]
    /\ KeyRest

DerivePutDetector ==
    /\ ~IsNone(derived.get_detector_data) /\ IsNone(derived.put_detector_data)
    /\ derived' = [derived EXCEPT
                      !.put_detector_data = Some(put_detector_path(path, config))]
    /\ KeyRest

KeyNext ==
    \/ DeriveKey
    \/ DeriveGetCrypto
    \/ DerivePutCrypto
    \/ DeriveGetDetector
    \/ DerivePutDetector

SpecKey == KeyInit /\ [][KeyNext]_vars

----------------------------------------------------------------------------
(* SpecRead: the expiry policy and the read paths, as pure functions of    *)
(* the descriptor the object store returned, the expiry setting and the    *)
(* time.                                                                   *)

\* the Error field of a response: a message, an empty message (what
\* botocore fills in when the response carries none), a mapping without a
\* message, and an empty mapping
ErrorFields == {[Message |-> "NoSuchKey"], [Message |-> ""],
                [Code |-> "500"], << >>}

LastModified0 == Time(1000000, 250000)

Bodies == {dumps(<<1>>)}

\* what get() may return: any subset of Body, LastModified and Error; the
\* empty mapping stands for both None and {}
Descriptors ==
    {[f \in fields |-> CASE f = "Body" -> b
                         [] f = "LastModified" -> LastModified0
                         [] OTHER -> e] :
        fields \in SUBSET {"Body", "LastModified", "Error"},
        b \in Bodies, e \in ErrorFields}

\* storage_expiration_seconds
Expirations == {NoneV, Some(0), Some(60), Some(SecondsPerDay)}

AgeSeconds == {0, 5, 59, 60, 61, SecondsPerDay - 1}
AgeMicros == {0, 999999}

TimeAdd(t, s, us) ==
    LET total == t.us + us
    IN  Time(t.s + s + total \div MicrosPerSecond, total % MicrosPerSecond)

\* the times of the check: LastModified0 plus an age of up to MaxDays days
\* and a part of a day
Nows ==
    {TimeAdd(LastModified0, d * SecondsPerDay + s, us) :
        d \in 0..MaxDays, s \in AgeSeconds, us \in AgeMicros}

ReadConfigs == {[BaseConfig EXCEPT !.storage_expiration_seconds = e] : e \in Expirations}

NoOutcome == [is_expired |-> NoneV, exists |-> NoneV, last_updated |-> NoneV,
              get_crypto |-> NoneV, get_detector_data |-> NoneV]

ReadInit ==
    /\ descriptor \in Descriptors
    /\ config \in ReadConfigs
    /\ now \in Nows
    /\ outcome = NoOutcome
    /\ path = Idle /\ derived = Idle
    /\ store = Idle /\ clock = Idle /\ calls = Idle /\ started = Idle /\ done = Idle

ReadRest == UNCHANGED <<path, config, derived, descriptor, now, store, clock, calls, started, done>>

ReadIsExpired ==
    /\ IsNone(outcome.is_expired)
    /\ outcome' = [outcome EXCEPT !.is_expired =
           Some(is_expired(descriptor, config.storage_expiration_seconds, now))]
    /\ ReadRest

ReadExists ==
    /\ IsNone(outcome.exists)
    /\ outcome' = [outcome EXCEPT !.exists = Some(exists_result(descriptor))]
    /\ ReadRest

ReadLastUpdated ==
    /\ IsNone(outcome.last_updated)
    /\ outcome' = [outcome EXCEPT !.last_updated =
           Some(on_file_fetched(descriptor, config.storage_expiration_seconds, now))]
    /\ ReadRest

ReadGetCrypto ==
    /\ IsNone(outcome.get_crypto)
    /\ outcome' = [outcome EXCEPT !.get_crypto =
           Some(crypto_return_data(descriptor, config.storage_expiration_seconds, now))]
    /\ ReadRest

ReadGetDetectorData ==
    /\ IsNone(outcome.get_detector_data)
    /\ outcome' = [outcome EXCEPT !.get_detector_data =
           Some(detector_return_data(descriptor, config.storage_expiration_seconds, now))]
    /\ ReadRest

ReadNext ==
    \/ ReadIsExpired
    \/ ReadExists
    \/ ReadLastUpdated
    \/ ReadGetCrypto
    \/ ReadGetDetectorData

SpecRead == ReadInit /\ [][ReadNext]_vars

----------------------------------------------------------------------------
(* Spec: the facade operations, called concurrently, against the object    *)
(* store.  A call runs to its await of the object store and the object     *)
(* store serves the request at some later step.  The continuations of      *)
(* get_crypto and get_detector_data read the clock, so they run at a step  *)
(* of their own; those of set, remove, put_crypto and put_detector_data    *)
(* read nothing but the response and are part of the step that serves the  *)
(* request.  Calls in flight that agree in everything are not told apart.  *)
(* get, exists and last_updated are a get of the primary key followed by   *)
(* the pure functions SpecRead applies to every descriptor.                *)

\* the paths the facade is called with
FacadePaths == {<<"a">> \o Txt}

\* the detector data handed to put_detector_data
DetectorData == {<<1>>, <<1, 2>>}

ImageBytes == <<"i", "m", "g">>

\* every setting of the crypto key policy, the security key and the expiry,
\* and the settings under which set() captures the headers or does not
FacadeConfigs ==
    {[BaseConfig EXCEPT !.STORES_CRYPTO_KEY_FOR_EACH_IMAGE = s, !.security_key = k,
                        !.storage_expiration_seconds = e] :
        s \in BOOLEAN, k \in SecurityKeys, e \in {NoneV, Some(60)}}
    \cup
    {[BaseConfig EXCEPT !.config_prefix = m[1], !.prefix_is_literal = m[2],
                        !.TC_AWS_STORE_METADATA = TRUE] :
        m \in {<<"TC_AWS_RESULT_STORAGE", TRUE>>, <<"TC_AWS_RESULT_STORAGE", FALSE>>,
               <<"TC_AWS_STORAGE", TRUE>>}}

Clock0 == Time(1000000, 0)

\* how far the clock is advanced in one step, in seconds: just past the
\* expiry of 60 seconds, or by a day
TickSeconds == {61, SecondsPerDay}
ShortTick == CHOOSE d \in TickSeconds : \A e \in TickSeconds : d <= e

NoRequest == [kind |-> "none"]

\* AwsStorage.set: the put it hands to the object store.  `is` compares
\* identities: equal strings are the same object only when the prefix is the
\* interned literal.
set_request(bytes, abspath, cfg) ==
    [kind |-> "put", key |-> abspath, body |-> bytes,
     metadata |-> IF /\ cfg.config_prefix = "TC_AWS_RESULT_STORAGE"
                     /\ cfg.prefix_is_literal
                     /\ cfg.TC_AWS_STORE_METADATA
                  THEN Headers ELSE NoMetadata,
     reduced_redundancy |-> cfg.TC_AWS_STORAGE_RRS,
     encrypt_key |-> cfg.TC_AWS_STORAGE_SSE]

get_request(key) == [kind |-> "get", key |-> key]
delete_request(key) == [kind |-> "delete", key |-> key]

\* put_crypto without the test of the crypto key policy
put_crypto_gate_NoPolicyTest(cfg) ==
    IF cfg.security_key = << >> THEN "raise" ELSE "put"

\* AwsStorage.put_crypto, up to its await: "none" where it returns None,
\* "raise" where it raises RuntimeError, "put" where it goes on to set()
put_crypto_gate(cfg) ==
    IF ~cfg.STORES_CRYPTO_KEY_FOR_EACH_IMAGE THEN "none"
    ELSE IF cfg.security_key = << >> THEN "raise"
    ELSE "put"

\* a call: src records which put wrote the object a get was served
NewCall(op, p, data, req) ==
    [op |-> op, path |-> p, data |-> data, pc |-> "awaiting", req |-> req,
     resp |-> NoneV, src |-> NoneV, at |-> Clock0, result |-> NoneV]

Init ==
    /\ config \in FacadeConfigs
    /\ store = << >>
    /\ clock = Clock0
    /\ calls = EmptyBag
    /\ started = 0
    /\ done = NoneV
    /\ path = Idle /\ derived = Idle
    /\ descriptor = Idle /\ now = Idle /\ outcome = Idle

FacadeRest == UNCHANGED <<path, config, derived, descriptor, now, outcome>>

One(call) == SetToBag({call})

\* a call runs up to its await
Start(call) ==
    /\ started < MaxCalls
    /\ started' = started + 1
    /\ calls' = calls (+) One(call)
    /\ UNCHANGED <<store, clock, done>>
    /\ FacadeRest

\* a call returns, or raises, without awaiting anything
Finish(call) ==
    /\ started < MaxCalls
    /\ started' = started + 1
    /\ done' = Some(call)
    /\ UNCHANGED <<store, clock, calls>>
    /\ FacadeRest

\* the keys set() and remove() are called with
FacadeKeys == {_normalize_path(p, config) : p \in FacadePaths}

Set(bytes, abspath) == Start(NewCall("set", abspath, bytes, set_request(bytes, abspath, config)))

Remove(abspath) == Start(NewCall("remove", abspath, << >>, delete_request(abspath)))

GetCrypto(p) ==
    Start(NewCall("get_crypto", p, << >>, get_request(get_crypto_path(p, config))))

PutCrypto(p) ==
    LET gate == put_crypto_gate(config)
        call == NewCall("put_crypto", p, << >>, NoRequest)
    IN  CASE gate = "none" -> Finish([call EXCEPT !.pc = "done"])
          [] gate = "raise" -> Finish([call EXCEPT !.pc = "raised"])
          [] OTHER ->
              Start([call EXCEPT !.req = set_request(config.security_key,
                                                     put_crypto_path(p, config), config)])

GetDetectorData(p) ==
    Start(NewCall("get_detector_data", p, << >>, get_request(get_detector_path(p, config))))

PutDetectorData(p, data) ==
    Start(NewCall("put_detector_data", p, data,
                  set_request(dumps(data), put_detector_path(p, config), config)))

\* what a call returns once the object store has answered; a result is
\* <<v>>, or << >> for None
Returned(call, cfg, nowT) ==
    LET expire == cfg.storage_expiration_seconds IN
    CASE call.op \in {"set", "put_detector_data"} -> Some(call.resp)
      [] call.op = "remove" -> NoneV
      [] call.op = "get_crypto" -> crypto_return_data(call.resp, expire, nowT)
      [] call.op = "put_crypto" -> Some(call.req.key)
      [] OTHER -> detector_return_data(call.resp, expire, nowT)

\* the call once its continuation has run: get_detector_data raises where
\* loads does
Completed(call, cfg, nowT) ==
    LET r == Returned(call, cfg, nowT)
        decoded == call.op = "get_detector_data" /\ ~IsNone(r)
        raises == decoded /\ ~Val(r).ok
    IN  [call EXCEPT !.pc = IF raises THEN "raised" ELSE "done",
                     !.at = nowT,
                     !.result = IF raises THEN NoneV
                                ELSE IF decoded THEN Some(Val(r).v)
                                ELSE r]

\* the operations whose continuation reads the clock
ClockReaders == {"get_crypto", "get_detector_data"}

\* the object store has answered a call
Answer(call, resp, src) ==
    LET answered == [call EXCEPT !.pc = "responded", !.resp = resp, !.src = src]
    IN  IF call.op \in ClockReaders
        THEN /\ calls' = (calls (-) One(call)) (+) One(answered)
             /\ UNCHANGED done
        ELSE /\ calls' = calls (-) One(call)
             /\ done' = Some(Completed(answered, config, clock))

\* the object store serves a get: the object's descriptor, nothing where
\* there is no object, or an error response
StoreGet(call) ==
    /\ call.pc = "awaiting" /\ call.req.kind = "get"
    /\ \E failed \in BOOLEAN :
          LET key == call.req.key
              there == key \in DOMAIN store
              found == IF there
                       THEN [Body |-> store[key].Body,
                             LastModified |-> store[key].LastModified]
                       ELSE << >>
          IN  IF failed
              THEN Answer(call, [Error |-> [Message |-> ""]], NoneV)
              ELSE Answer(call, found, IF there THEN Some(store[key].by) ELSE NoneV)
    /\ UNCHANGED <<store, clock, started>>
    /\ FacadeRest

\* the object store completes a put: the object is replaced.  by records
\* the call that wrote the object and the body it replaced.
StorePut(call) ==
    /\ call.pc = "awaiting" /\ call.req.kind = "put"
    /\ LET req == call.req
           over == IF req.key \in DOMAIN store THEN Some(store[req.key].Body) ELSE NoneV
           object == [Body |-> req.body, LastModified |-> clock,
                      Metadata |-> req.metadata,
                      by |-> [op |-> call.op, path |-> call.path,
                              data |-> call.data, over |-> over]]
       IN  /\ store' = [k \in DOMAIN store \cup {req.key} |->
                           IF k = req.key THEN object ELSE store[k]]
           /\ Answer(call, req.key, NoneV)
    /\ UNCHANGED <<clock, started>>
    /\ FacadeRest

\* the object store completes a delete
StoreDelete(call) ==
    /\ call.pc = "awaiting" /\ call.req.kind = "delete"
    /\ store' = [k \in DOMAIN store \ {call.req.key} |-> store[k]]
    /\ Answer(call, NoneV, NoneV)
    /\ UNCHANGED <<clock, started>>
    /\ FacadeRest

\* the continuation of a call that reads the clock runs
Return(call) ==
    /\ call.pc = "responded"
    /\ done' = Some(Completed(call, config, clock))
    /\ calls' = calls (-) One(call)
    /\ UNCHANGED <<store, clock, started>>
    /\ FacadeRest

\* how many times the clock has been advanced
Ticks ==
    LET elapsed == clock.s - Clock0.s
    IN  elapsed \div SecondsPerDay + (elapsed % SecondsPerDay) \div ShortTick

\* time passes; before anything is stored no operation reads the clock
Tick(d) ==
    /\ Ticks < MaxTicks
    /\ DOMAIN store # {}
    /\ clock' = TimeAdd(clock, d, 0)
    /\ UNCHANGED <<store, calls, started, done>>
    /\ FacadeRest

Next ==
    \/ \E k \in FacadeKeys : Set(ImageBytes, k)
    \/ \E k \in FacadeKeys : Remove(k)
    \/ \E p \in FacadePaths : GetCrypto(p)
    \/ \E p \in FacadePaths : PutCrypto(p)
    \/ \E p \in FacadePaths : GetDetectorData(p)
    \/ \E p \in FacadePaths, data \in DetectorData : PutDetectorData(p, data)
    \/ \E call \in BagToSet(calls) : StoreGet(call)
    \/ \E call \in BagToSet(calls) : StorePut(call)
    \/ \E call \in BagToSet(calls) : StoreDelete(call)
    \/ \E call \in BagToSet(calls) : Return(call)
    \/ \E d \in TickSeconds : Tick(d)

Spec == Init /\ [][Next]_vars

----------------------------------------------------------------------------
(* The vocabulary of the properties.                                       *)

\* a descriptor that is present, carries no error field and has a
\* LastModified timestamp
Valid(d) == Present(d) /\ "Error" \notin DOMAIN d /\ "LastModified" \in DOMAIN d

\* the age nowT - lm as a total number of seconds, truncated to whole
\* seconds, for nowT not before lm
AgeWholeSeconds(nowT, lm) ==
    (nowT.s - lm.s) - (IF nowT.us < lm.us THEN 1 ELSE 0)

PositiveTtl(cfg) ==
    /\ ~IsNone(cfg.storage_expiration_seconds)
    /\ Val(cfg.storage_expiration_seconds) > 0

Ttl(cfg) == Val(cfg.storage_expiration_seconds)

\* the outcome of a read path, once it has run
Ran(field) == ~IsNone(outcome[field])
Result(field) == Val(outcome[field])

----------------------------------------------------------------------------
(* C1: for a valid descriptor and a positive TTL, is_expired returns true  *)
(* exactly when the age in whole seconds, taken as a total number of       *)
(* seconds, is strictly greater than the TTL, for every age, ages of a day *)
(* or more included.                                                       *)
C1_ExpiredIffAgeExceedsTtl ==
    (Ran("is_expired") /\ Valid(descriptor) /\ PositiveTtl(config))
        => (Result("is_expired")
              = (AgeWholeSeconds(now, descriptor.LastModified) > Ttl(config)))

(* C2: with the expiry None or 0, is_expired returns false for every valid *)
(* descriptor whatever its age, and true for an absent descriptor, one     *)
(* with an error field and one without LastModified.                       *)
C2_NeverExpire ==
    (Ran("is_expired") /\ ~PositiveTtl(config))
        => (Result("is_expired") = ~Valid(descriptor))

C2_Witness ==
    /\ Ran("is_expired")
    /\ config.storage_expiration_seconds = Some(0)
    /\ Valid(descriptor)
    /\ AgeWholeSeconds(now, descriptor.LastModified) > SecondsPerDay
    /\ Result("is_expired") = FALSE

(* C3: a descriptor with an error field, whatever the field holds, is      *)
(* expired for is_expired, does not exist for exists, and makes            *)
(* last_updated, get_crypto and get_detector_data return None.             *)
C3_ErrorAsAbsent ==
    ("Error" \in DOMAIN descriptor)
        => /\ Ran("is_expired") => Result("is_expired") = TRUE
           /\ Ran("exists") => Result("exists") = FALSE
           /\ Ran("last_updated") => IsNone(Result("last_updated"))
           /\ Ran("get_crypto") => IsNone(Result("get_crypto"))
           /\ Ran("get_detector_data") => IsNone(Result("get_detector_data"))

(* C4: for a valid descriptor with a Body whose age exceeds a positive     *)
(* TTL, exists returns true while last_updated, get_crypto and             *)
(* get_detector_data return None; exists returns true for every valid      *)
(* descriptor, whatever the TTL and the age.                               *)
C4_StaleExistsButUnreadable ==
    /\ (Ran("exists") /\ Valid(descriptor)) => Result("exists") = TRUE
    /\ (/\ Valid(descriptor) /\ "Body" \in DOMAIN descriptor
        /\ PositiveTtl(config)
        /\ AgeWholeSeconds(now, descriptor.LastModified) > Ttl(config))
           => /\ Ran("last_updated") => IsNone(Result("last_updated"))
              /\ Ran("get_crypto") => IsNone(Result("get_crypto"))
              /\ Ran("get_detector_data") => IsNone(Result("get_detector_data"))

----------------------------------------------------------------------------
\* the segments the digest is said to be taken of: the root path if set,
\* the stripped path, and webp under auto_webp
DigestSegments(p, cfg) ==
    (IF ~IsNone(cfg.ROOT_PATH) /\ Val(cfg.ROOT_PATH) # << >>
     THEN <<Val(cfg.ROOT_PATH)>> ELSE << >>)
    \o <<lstrip(p)>>
    \o (IF is_auto_webp(cfg) THEN <<Webp>> ELSE << >>)

\* s ends with the sequence t
EndsWith(s, t) ==
    Len(t) <= Len(s) /\ SubSeq(s, Len(s) - Len(t) + 1, Len(s)) = t

\* the last path component of key is name
FileNameIs(key, name) == key = name \/ EndsWith(key, <<Slash>> \o name)

\* a path that is empty once its leading separators are stripped, or ends
\* in a separator
DirectoryLike(p) == lstrip(p) = << >> \/ endswith(p)

GoodRootImageName(cfg) ==
    cfg.TC_AWS_ROOT_IMAGE_NAME # << >> /\ ~endswith(cfg.TC_AWS_ROOT_IMAGE_NAME)

RootPathSet(cfg) == ~IsNone(cfg.ROOT_PATH) /\ Val(cfg.ROOT_PATH) # << >>

\* the root path holds a character other than the separator
RootPathNamed(cfg) ==
    RootPathSet(cfg) /\ \E i \in 1..Len(Val(cfg.ROOT_PATH)) : Val(cfg.ROOT_PATH)[i] # Slash

Derived(field) == ~IsNone(derived[field])
Key(field) == Val(derived[field])

(* C5: the key derived under randomize_keys is the digest of the segments  *)
(* joined by '.', then '/', then the key derived without randomize_keys    *)
(* under the otherwise identical policy, for every path and every root     *)
(* path, one that begins with '/' included.                                *)
C5_RandomizeInsertsDigestSegment ==
    (Derived("key") /\ config.TC_AWS_RANDOMIZE_KEYS)
        => Key("key") =
              sha1hex(DotJoin(DigestSegments(path, config))) \o <<Slash>>
              \o _normalize_path(path, [config EXCEPT !.TC_AWS_RANDOMIZE_KEYS = FALSE])

(* C6, as stated: with a root image name that is not empty and does not    *)
(* end in '/', the derived key neither ends nor begins with '/', and for   *)
(* every directory-like path its file name is the root image name, under   *)
(* every root path, auto_webp and randomize_keys.                          *)
C6_DirectoryLikeAlwaysRewritten ==
    (Derived("key") /\ GoodRootImageName(config))
        => /\ ~endswith(Key("key"))
           /\ ~startswith(Key("key"))
           /\ DirectoryLike(path)
                 => FileNameIs(Key("key"), config.TC_AWS_ROOT_IMAGE_NAME)

(* C6, amended: with a root image name that is not empty and does not end  *)
(* in '/', the derived key neither ends nor begins with '/'; and for every *)
(* directory-like path its file name is the root image name provided that  *)
(* auto_webp is off and that, where the stripped path is empty, a root     *)
(* path with a character other than '/' is set or the keys are randomized  *)
(* with no root path set.                                                  *)
C6_DirectoryLikeRewritten ==
    (Derived("key") /\ GoodRootImageName(config))
        => /\ ~endswith(Key("key"))
           /\ ~startswith(Key("key"))
           /\ (/\ DirectoryLike(path)
               /\ ~is_auto_webp(config)
               /\ \/ lstrip(path) # << >>
                  \/ RootPathNamed(config)
                  \/ config.TC_AWS_RANDOMIZE_KEYS /\ ~RootPathSet(config))
                 => FileNameIs(Key("key"), config.TC_AWS_ROOT_IMAGE_NAME)

C6_Witness ==
    /\ Derived("key")
    /\ path = <<Slash, "a", Slash, "a", Slash>>
    /\ config.ROOT_PATH = Some(<<"r">>)
    /\ config.TC_AWS_RANDOMIZE_KEYS
    /\ ~is_auto_webp(config)
    /\ EndsWith(Key("key"), <<Slash, "a", Slash, "i", ".", "j">>)

\* the base of a key: the key up to the last dot of its last component,
\* where a character other than a dot precedes that dot in the component;
\* the whole key otherwise
SidecarBase(key) ==
    LET first == rfind(key, Slash) + 1
        dots == {i \in first..Len(key) : key[i] = Dot}
    IN  IF dots # {} /\ \E j \in first..(Max(dots) - 1) : key[j] # Dot
        THEN SubSeq(key, 1, Max(dots) - 1)
        ELSE key

\* the last component of key holds no dot
NoDotInFileName(key) == \A i \in (rfind(key, Slash) + 1)..Len(key) : key[i] # Dot

(* C8: the crypto sidecar key is the primary key without the extension of  *)
(* its last component, followed by '.txt', and the detector sidecar key is *)
(* the same base followed by '.detectors.txt'; where the last component    *)
(* has no extension the whole key is the base; get_crypto and put_crypto   *)
(* address the same key, and so do get_detector_data and                   *)
(* put_detector_data.                                                      *)
C8_SidecarNaming ==
    Derived("key") =>
        /\ Derived("get_crypto") => Key("get_crypto") = SidecarBase(Key("key")) \o Txt
        /\ Derived("put_crypto") => Key("put_crypto") = Key("get_crypto")
        /\ Derived("get_detector_data")
              => Key("get_detector_data") = SidecarBase(Key("key")) \o DetectorsTxt
        /\ Derived("put_detector_data")
              => Key("put_detector_data") = Key("get_detector_data")
        /\ (Derived("get_crypto") /\ NoDotInFileName(Key("key")))
              => Key("get_crypto") = Key("key") \o Txt

C8_Witness ==
    /\ Derived("put_detector_data")
    /\ is_auto_webp(config)
    /\ Key("key") = <<"r", Slash, "a", ".", "t", "x", "t", Slash>> \o Webp
    /\ Key("put_crypto") = Key("key") \o Txt
    /\ Key("put_detector_data") = Key("key") \o DetectorsTxt

----------------------------------------------------------------------------
\* the calls in flight and the call that returned last
KnownCalls == BagToSet(calls) \cup (IF IsNone(done) THEN {} ELSE {Val(done)})

\* the objects in the store that the operation op wrote
WrittenBy(op) == {k \in DOMAIN store : store[k].by.op = op}

(* C7: with the crypto key policy disabled put_crypto returns None and     *)
(* issues no put; with the policy enabled and no security key it raises    *)
(* and issues no put; only with the policy enabled and a security key does *)
(* it issue a put, of the security key at the crypto sidecar key, and      *)
(* return that key.                                                        *)
C7_PutCryptoGating ==
    /\ \A call \in KnownCalls :
          call.op = "put_crypto" =>
             IF ~config.STORES_CRYPTO_KEY_FOR_EACH_IMAGE
             THEN call.pc = "done" /\ IsNone(call.result) /\ call.req = NoRequest
             ELSE IF config.security_key = << >>
             THEN call.pc = "raised" /\ call.req = NoRequest
             ELSE /\ call.pc \in {"awaiting", "done"}
                  /\ call.req.kind = "put"
                  /\ call.req.key = get_crypto_path(call.path, config)
                  /\ call.req.body = config.security_key
                  /\ call.pc = "done" => call.result = Some(call.req.key)
    /\ \A k \in WrittenBy("put_crypto") :
          /\ config.STORES_CRYPTO_KEY_FOR_EACH_IMAGE
          /\ config.security_key # << >>
          /\ k = get_crypto_path(store[k].by.path, config)
          /\ store[k].Body = config.security_key

C7_Witness ==
    /\ ~IsNone(done)
    /\ Val(done).op = "put_crypto"
    /\ Val(done).pc = "done"
    /\ Val(done).result = Some(get_crypto_path(Val(done).path, config))
    /\ WrittenBy("put_crypto") = {Val(Val(done).result)}
    /\ started = 1

\* the object of descriptor d is not past the expiry at nowT
Fresh(d, cfg, nowT) ==
    ~PositiveTtl(cfg) \/ AgeWholeSeconds(nowT, d.LastModified) <= Ttl(cfg)

(* C9: a get_detector_data that the store serves without an error, and     *)
(* whose object is not expired, returns the data of the put_detector_data  *)
(* call whose put the store completed last on that key, however the calls  *)
(* were interleaved; an object is what the last put on its own key made    *)
(* it, so that no put on another key changes what is read back.            *)
C9_LastWriteWins ==
    /\ \A call \in KnownCalls :
          (/\ call.op = "get_detector_data"
           /\ call.pc \in {"done", "raised"}
           /\ Valid(call.resp)
           /\ Fresh(call.resp, config, call.at)
           /\ ~IsNone(call.src)
           /\ Val(call.src).op = "put_detector_data")
             => /\ call.pc = "done"
                /\ call.result = Some(Val(call.src).data)
                /\ call.req.key = put_detector_path(Val(call.src).path, config)
    /\ \A k \in WrittenBy("put_detector_data") :
          /\ k = put_detector_path(store[k].by.path, config)
          /\ loads(store[k].Body) = [ok |-> TRUE, v |-> store[k].by.data]

C9_Witness ==
    /\ ~IsNone(done)
    /\ Val(done).op = "get_detector_data"
    /\ Val(done).pc = "done"
    /\ Val(done).result = Some(<<1>>)
    /\ Val(Val(done).src).over = Some(dumps(<<1, 2>>))
    /\ WrittenBy("put_detector_data") = {Val(done).req.key}
    /\ started = 3

\* the calls of put_crypto and put_detector_data that have issued a put
SidecarPuts ==
    {call \in KnownCalls :
        call.op \in {"put_crypto", "put_detector_data"} /\ call.req.kind = "put"}

(* C10: for every path the keys put_crypto and put_detector_data write are *)
(* distinct from each other and from the primary key that get and exists   *)
(* derive for that path, so that no object written by either of them lies  *)
(* at the primary key of the path it was called with.                      *)
C10_SidecarsNeverClobber ==
    /\ \A call \in SidecarPuts :
          /\ call.req.key # _normalize_path(call.path, config)
          /\ put_crypto_path(call.path, config) # put_detector_path(call.path, config)
    /\ \A k \in WrittenBy("put_crypto") \cup WrittenBy("put_detector_data") :
          k # _normalize_path(store[k].by.path, config)

====
